---- MODULE Spec2Model ----
(***************************************************************************)
(* Model of particle_injector_controller.ino: the dust injector sketch     *)
(* that drives a vibration motor (PWM on BUZZER_PIN) and a servo gate      *)
(* through PULSE_CYCLES timed pulses and then halts.                       *)
(*                                                                         *)
(* One action per statement of setup() and loop().  The four timing and    *)
(* count constants of the sketch are variables fixed by Init, so that the  *)
(* properties are checked for every configuration in the bounded ranges.   *)
(***************************************************************************)
EXTENDS Integers, Sequences, FiniteSets, TLC

(* ------------------------------------------------------------------ *)
(* Program constants                                                  *)
(* ------------------------------------------------------------------ *)
SERVO_PIN == 6
BUZZER_PIN == 11
SERVO_OPEN_DEG == 123
SERVO_CLOSE_DEG == 130
VIBE_PWM == 255
STARTUP_DELAY_MS == 11000
\* The values the sketch ships with.
DefaultOnMs == 500
DefaultOffMs == 1500
DefaultLeadMs == 250

(* ------------------------------------------------------------------ *)
(* Bounds of the model                                                *)
(* ------------------------------------------------------------------ *)
MaxPulses == 3
MaxNegPulses == 1
MaxOnMs == 2
MaxOffMs == 3
MaxLeadMs == 3
MaxNegMs == 1

(* ------------------------------------------------------------------ *)
(* Numbers                                                            *)
(*                                                                    *)
(* A duration of the sketch is an unsigned long, 32 bits wide, and a  *)
(* time is a sum of such durations.  Both exceed what TLC's integers  *)
(* hold, so a number is kept as <<hi, lo>> with value                 *)
(* hi * LimbBase + lo and 0 <= lo < LimbBase.  hi is negative for a   *)
(* negative number.                                                   *)
(* ------------------------------------------------------------------ *)
LimbBase == 2^16

Norm(h, l) == <<h + (l \div LimbBase), l % LimbBase>>
Num(n) == Norm(0, n)
NumAdd(x, y) == Norm(x[1] + y[1], x[2] + y[2])
NumSub(x, y) == Norm(x[1] - y[1], x[2] - y[2])
NumScale(k, x) == Norm(k * x[1], k * x[2])
NumLess(x, y) == x[1] < y[1] \/ (x[1] = y[1] /\ x[2] < y[2])
NumLeq(x, y) == x = y \/ NumLess(x, y)
IsNegative(x) == x[1] < 0

\* Conversion to unsigned long: the value modulo 2^32.
ToUnsignedLong(x) == <<x[1] % LimbBase, x[2]>>
ULONG_MAX == <<LimbBase - 1, LimbBase - 1>>

\* a - b and a > b on unsigned long operands
ULongSub(a, b) == ToUnsignedLong(NumSub(a, b))
ULongGreater(a, b) == NumLess(b, a)

PulseCounts == (0 - MaxNegPulses)..MaxPulses
OnDurations == (0..MaxOnMs) \cup {DefaultOnMs}
OffDurations == (0..MaxOffMs) \cup {DefaultOffMs}
LeadDurations == (0..MaxLeadMs) \cup {DefaultLeadMs}
NegativeMs == {0 - k : k \in 1..MaxNegMs}

\* What may stand to the right of "=" in the three unsigned long
\* declarations: small and shipped values, negative values, the largest value.
Initializers(durations) ==
    {Num(n) : n \in durations \cup NegativeMs} \cup {ULONG_MAX}

(* ------------------------------------------------------------------ *)
(* State                                                              *)
(* ------------------------------------------------------------------ *)
VARIABLES
    initializer,     \* the values written in the declarations, lines 38-46
    PULSE_CYCLES,    \* const int, line 40
    VIBE_ON_MS,      \* const unsigned long, line 38
    VIBE_OFF_MS,     \* const unsigned long, line 39
    REOPEN_LEAD_MS,  \* const unsigned long, line 46
    pc,              \* the statement about to execute
    cycle,           \* the for loop's counter
    closedHold,      \* local of the loop body, line 86
    reopenWait,      \* local of the loop body, line 94
    vib,             \* duty last written to BUZZER_PIN
    gate,            \* angle the servo gate is commanded to
    now,             \* milliseconds elapsed since reset
    log,             \* history: every call that acts on the outside world
    cancelRequested, \* an outside supervisor has asked the run to stop
    cancelAt         \* length of the history and statement when it asked

vars == <<initializer, PULSE_CYCLES, VIBE_ON_MS, VIBE_OFF_MS, REOPEN_LEAD_MS,
          pc, cycle, closedHold, reopenWait, vib, gate, now, log,
          cancelRequested, cancelAt>>

config == <<initializer, PULSE_CYCLES, VIBE_ON_MS, VIBE_OFF_MS, REOPEN_LEAD_MS>>

\* Nothing in the sketch reads or writes the supervisor's request.
supervisor == <<cancelRequested, cancelAt>>

SetupSites == {"setup_servo", "setup_buzzer", "setup_delay", "setup_println"}
PulseSites == {"print", "vib_on", "delay_on", "vib_off", "gate_close", "hold",
               "gate_open", "wait", "for_incr"}
LoopSites == {"loop_entry", "for_test"} \cup PulseSites
                 \cup {"shutdown", "complete", "halt"}

\* One entry of the history: the statement that made the call, the call, its
\* two arguments and the time at which it was made.
Event(site, op, a, b, t) == [site |-> site, op |-> op, a |-> a, b |-> b, t |-> t]

(* ------------------------------------------------------------------ *)
(* Library calls                                                      *)
(* ------------------------------------------------------------------ *)
\* analogWrite(BUZZER_PIN, value)
AnalogWrite(value) ==
    /\ vib' = value
    /\ log' = Append(log, Event(pc, "analogWrite", BUZZER_PIN, value, now))
    /\ UNCHANGED <<gate, now>>

\* injectorServo.write(deg)
ServoWrite(deg) ==
    /\ gate' = deg
    /\ log' = Append(log, Event(pc, "servoWrite", SERVO_PIN, deg, now))
    /\ UNCHANGED <<vib, now>>

\* delay(ms): blocks for ms milliseconds
Delay(ms) ==
    /\ now' = NumAdd(now, ms)
    /\ log' = Append(log, Event(pc, "delay", ms, 0, now))
    /\ UNCHANGED <<vib, gate>>

\* Serial.print / Serial.println of one line of status text
SerialLine(text, i, n) ==
    /\ log' = Append(log, Event(pc, text, i, n, now))
    /\ UNCHANGED <<vib, gate, now>>

(* ------------------------------------------------------------------ *)
(* Derived timing                                                     *)
(* ------------------------------------------------------------------ *)
\* the else value of reopenWait pasted into closedHold
ClosedHold_WrongClamp(off, lead) ==
    IF ULongGreater(off, lead) THEN ULongSub(off, lead) ELSE off

\* the subtraction made without the comparison that guards it
ClosedHold_Unguarded(off, lead) == ULongSub(off, lead)

ClosedHold(off, lead) ==
    IF ULongGreater(off, lead) THEN ULongSub(off, lead) ELSE Num(0)

\* the lead time used without comparing it against the off-period
ReopenWait_AlwaysLead(off, lead) == lead

\* the two branches of the conditional exchanged
ReopenWait_BranchesSwapped(off, lead) ==
    IF ULongGreater(off, lead) THEN off ELSE lead

ReopenWait(off, lead) == IF ULongGreater(off, lead) THEN lead ELSE off

(* ------------------------------------------------------------------ *)
(* Initial state: reset, before setup() runs                          *)
(* ------------------------------------------------------------------ *)
Init ==
    /\ initializer \in [on : Initializers(OnDurations),
                         off : Initializers(OffDurations),
                         lead : Initializers(LeadDurations)]
    /\ PULSE_CYCLES \in PulseCounts
    /\ VIBE_ON_MS = ToUnsignedLong(initializer.on)
    /\ VIBE_OFF_MS = ToUnsignedLong(initializer.off)
    /\ REOPEN_LEAD_MS = ToUnsignedLong(initializer.lead)
    /\ pc = "setup_servo"
    /\ cycle = 0
    /\ closedHold = Num(0)
    /\ reopenWait = Num(0)
    /\ vib = 0
    /\ gate \in {SERVO_OPEN_DEG, SERVO_CLOSE_DEG}  \* wherever it was left
    /\ now = Num(0)
    /\ log = <<>>
    /\ cancelRequested = FALSE
    /\ cancelAt = [len |-> 0, pc |-> "none"]

(* ------------------------------------------------------------------ *)
(* setup()                                                            *)
(* ------------------------------------------------------------------ *)
\* the servo attached but never written to the open angle
SetupServo_AttachOnly ==
    /\ pc = "setup_servo"
    /\ pc' = "setup_buzzer"
    /\ UNCHANGED <<config, supervisor, cycle, closedHold, reopenWait, vib, gate, now, log>>

SetupServo ==
    /\ pc = "setup_servo"
    /\ ServoWrite(SERVO_OPEN_DEG)
    /\ pc' = "setup_buzzer"
    /\ UNCHANGED <<config, supervisor, cycle, closedHold, reopenWait>>

SetupBuzzer ==
    /\ pc = "setup_buzzer"
    /\ AnalogWrite(0)
    /\ pc' = "setup_delay"
    /\ UNCHANGED <<config, supervisor, cycle, closedHold, reopenWait>>

\* the stabilization delay left out
SetupDelay_Skipped ==
    /\ pc = "setup_delay"
    /\ pc' = "setup_println"
    /\ UNCHANGED <<config, supervisor, cycle, closedHold, reopenWait, vib, gate, now, log>>

SetupDelay ==
    /\ pc = "setup_delay"
    /\ Delay(ToUnsignedLong(Num(STARTUP_DELAY_MS)))
    /\ pc' = "setup_println"
    /\ UNCHANGED <<config, supervisor, cycle, closedHold, reopenWait>>

SetupPrintln ==
    /\ pc = "setup_println"
    /\ SerialLine("initialized", 0, 0)
    /\ pc' = "loop_entry"
    /\ UNCHANGED <<config, supervisor, cycle, closedHold, reopenWait>>

(* ------------------------------------------------------------------ *)
(* loop()                                                             *)
(* ------------------------------------------------------------------ *)
\* for (int cycle = 0; ...
LoopEntry ==
    /\ pc = "loop_entry"
    /\ cycle' = 0
    /\ pc' = "for_test"
    /\ UNCHANGED <<config, supervisor, closedHold, reopenWait, vib, gate, now, log>>

\* the loop test written with <= instead of <
ForTest_OffByOne ==
    /\ pc = "for_test"
    /\ pc' = IF cycle <= PULSE_CYCLES THEN "print" ELSE "shutdown"
    /\ UNCHANGED <<config, supervisor, cycle, closedHold, reopenWait, vib, gate, now, log>>

\* the loop test also consulting the supervisor's request
ForTest_ChecksCancel ==
    /\ pc = "for_test"
    /\ pc' = IF cycle < PULSE_CYCLES /\ ~cancelRequested
             THEN "print" ELSE "shutdown"
    /\ UNCHANGED <<config, supervisor, cycle, closedHold, reopenWait, vib, gate, now, log>>

\* ... cycle < PULSE_CYCLES; ...
ForTest ==
    /\ pc = "for_test"
    /\ pc' = IF cycle < PULSE_CYCLES THEN "print" ELSE "shutdown"
    /\ UNCHANGED <<config, supervisor, cycle, closedHold, reopenWait, vib, gate, now, log>>

\* the 0-based counter printed as it is
PrintPulse_ZeroBased ==
    /\ pc = "print"
    /\ SerialLine("Pulse", cycle, PULSE_CYCLES)
    /\ pc' = "vib_on"
    /\ UNCHANGED <<config, supervisor, cycle, closedHold, reopenWait>>

PrintPulse ==
    /\ pc = "print"
    /\ SerialLine("Pulse", cycle + 1, PULSE_CYCLES)
    /\ pc' = "vib_on"
    /\ UNCHANGED <<config, supervisor, cycle, closedHold, reopenWait>>

VibrationOn ==
    /\ pc = "vib_on"
    /\ AnalogWrite(VIBE_PWM)
    /\ pc' = "delay_on"
    /\ UNCHANGED <<config, supervisor, cycle, closedHold, reopenWait>>

\* the on-phase held for the off-period's duration
DelayOn_WrongConstant ==
    /\ pc = "delay_on"
    /\ Delay(VIBE_OFF_MS)
    /\ pc' = "vib_off"
    /\ UNCHANGED <<config, supervisor, cycle, closedHold, reopenWait>>

DelayOn ==
    /\ pc = "delay_on"
    /\ Delay(VIBE_ON_MS)
    /\ pc' = "vib_off"
    /\ UNCHANGED <<config, supervisor, cycle, closedHold, reopenWait>>

\* the motor left running when the gate closes
VibrationOff_Missing ==
    /\ pc = "vib_off"
    /\ pc' = "gate_close"
    /\ UNCHANGED <<config, supervisor, cycle, closedHold, reopenWait, vib, gate, now, log>>

VibrationOff ==
    /\ pc = "vib_off"
    /\ AnalogWrite(0)
    /\ pc' = "gate_close"
    /\ UNCHANGED <<config, supervisor, cycle, closedHold, reopenWait>>

GateClose ==
    /\ pc = "gate_close"
    /\ ServoWrite(SERVO_CLOSE_DEG)
    /\ pc' = "hold"
    /\ UNCHANGED <<config, supervisor, cycle, closedHold, reopenWait>>

\* closedHold computed but the gate reopened without waiting for it
HoldClosed_NoWait ==
    /\ pc = "hold"
    /\ closedHold' = ClosedHold(VIBE_OFF_MS, REOPEN_LEAD_MS)
    /\ Delay(Num(0))
    /\ pc' = "gate_open"
    /\ UNCHANGED <<config, supervisor, cycle, reopenWait>>

HoldClosed ==
    /\ pc = "hold"
    /\ closedHold' = ClosedHold(VIBE_OFF_MS, REOPEN_LEAD_MS)
    /\ Delay(closedHold')
    /\ pc' = "gate_open"
    /\ UNCHANGED <<config, supervisor, cycle, reopenWait>>

\* the gate written to the close angle again instead of the open angle
GateReopen_WrongAngle ==
    /\ pc = "gate_open"
    /\ ServoWrite(SERVO_CLOSE_DEG)
    /\ pc' = "wait"
    /\ UNCHANGED <<config, supervisor, cycle, closedHold, reopenWait>>

GateReopen ==
    /\ pc = "gate_open"
    /\ ServoWrite(SERVO_OPEN_DEG)
    /\ pc' = "wait"
    /\ UNCHANGED <<config, supervisor, cycle, closedHold, reopenWait>>

WaitReopened ==
    /\ pc = "wait"
    /\ reopenWait' = ReopenWait(VIBE_OFF_MS, REOPEN_LEAD_MS)
    /\ Delay(reopenWait')
    /\ pc' = "for_incr"
    /\ UNCHANGED <<config, supervisor, cycle, closedHold>>

\* ... cycle++)   (cycle < PULSE_CYCLES held, so the int cannot overflow)
ForIncr ==
    /\ pc = "for_incr"
    /\ cycle' = cycle + 1
    /\ pc' = "for_test"
    /\ UNCHANGED <<config, supervisor, closedHold, reopenWait, vib, gate, now, log>>

\* the final analogWrite left out
Shutdown_Missing ==
    /\ pc = "shutdown"
    /\ pc' = "complete"
    /\ UNCHANGED <<config, supervisor, cycle, closedHold, reopenWait, vib, gate, now, log>>

Shutdown ==
    /\ pc = "shutdown"
    /\ AnalogWrite(0)
    /\ pc' = "complete"
    /\ UNCHANGED <<config, supervisor, cycle, closedHold, reopenWait>>

PrintComplete ==
    /\ pc = "complete"
    /\ SerialLine("complete", 0, 0)
    /\ pc' = "halt"
    /\ UNCHANGED <<config, supervisor, cycle, closedHold, reopenWait>>

\* loop() returns and the runtime calls it again
Halt_Returns ==
    /\ pc = "halt"
    /\ pc' = "loop_entry"
    /\ UNCHANGED <<config, supervisor, cycle, closedHold, reopenWait, vib, gate, now, log>>

\* while (true) { }
Halt ==
    /\ pc = "halt"
    /\ UNCHANGED vars

Next ==
    \/ SetupServo
    \/ SetupBuzzer
    \/ SetupDelay
    \/ SetupPrintln
    \/ LoopEntry
    \/ ForTest
    \/ PrintPulse
    \/ VibrationOn
    \/ DelayOn
    \/ VibrationOff
    \/ GateClose
    \/ HoldClosed
    \/ GateReopen
    \/ WaitReopened
    \/ ForIncr
    \/ Shutdown
    \/ PrintComplete
    \/ Halt

Spec == Init /\ [][Next]_vars

(* ------------------------------------------------------------------ *)
(* The sketch under an outside supervisor that may, once and at any   *)
(* moment, ask the run to stop.  Run with the shipped durations.      *)
(* ------------------------------------------------------------------ *)
RequestCancel ==
    /\ ~cancelRequested
    /\ cancelRequested' = TRUE
    /\ cancelAt' = [len |-> Len(log), pc |-> pc]
    /\ UNCHANGED <<config, pc, cycle, closedHold, reopenWait, vib, gate, now, log>>

ShippedDurations ==
    initializer = [on |-> Num(DefaultOnMs), off |-> Num(DefaultOffMs),
                   lead |-> Num(DefaultLeadMs)]

SupervisedInit == Init /\ ShippedDurations

SupervisedNext == Next \/ RequestCancel

SupervisedSpec == SupervisedInit /\ [][SupervisedNext]_vars

\* The processor executes the next statement whenever there is one.
FairSpec == Spec /\ WF_vars(Next)

(* ------------------------------------------------------------------ *)
(* Reading the history                                                *)
(* ------------------------------------------------------------------ *)
RECURSIVE Repeat(_, _)
Repeat(s, n) == IF n <= 0 THEN <<>> ELSE s \o Repeat(s, n - 1)

IsPrefix(s, t) == Len(s) <= Len(t) /\ SubSeq(t, 1, Len(s)) = s

IsActuator(e) == e.op \in {"analogWrite", "servoWrite"}
IsDelay(e) == e.op = "delay"
ByLoop(e) == e.site \in LoopSites

\* The actuator commands of a history, as <<call, value>> pairs.
Commands(h) ==
    LET sel == SelectSeq(h, IsActuator)
    IN [i \in 1..Len(sel) |-> <<sel[i].op, sel[i].b>>]

\* The durations waited in a history.
Waits(h) ==
    LET sel == SelectSeq(h, IsDelay)
    IN [i \in 1..Len(sel) |-> sel[i].a]

LoopLog == SelectSeq(log, ByLoop)
LoopCommands == Commands(LoopLog)
LoopWaits == Waits(LoopLog)

VibOnCmd == <<"analogWrite", VIBE_PWM>>
VibOffCmd == <<"analogWrite", 0>>
GateCloseCmd == <<"servoWrite", SERVO_CLOSE_DEG>>
GateOpenCmd == <<"servoWrite", SERVO_OPEN_DEG>>
PulseCmds == <<VibOnCmd, VibOffCmd, GateCloseCmd, GateOpenCmd>>

CountOf(h, c) == Cardinality({i \in 1..Len(h) : h[i] = c})
CountSite(site) == Cardinality({i \in 1..Len(log) : log[i].site = site})

\* The for loop has been left: the terminal part of loop() is executing.
LoopLeft == pc \in {"shutdown", "complete", "halt"}
\* The terminal analogWrite has been made.
ShutdownDone == pc \in {"complete", "halt"}

(* ------------------------------------------------------------------ *)
(* C1                                                                 *)
(* ------------------------------------------------------------------ *)
\* C1: for every PULSE_CYCLES >= 1 the actuator commands loop() issues before
\* the terminal shutdown are a prefix of PULSE_CYCLES repetitions of
\* (vibration on, vibration 0, gate close, gate open) at every moment, and are
\* exactly those repetitions once the for loop is left: PULSE_CYCLES commands
\* of each of vibration-on, gate-close and gate-reopen, pulse after pulse.
C1_PulseSequence ==
    PULSE_CYCLES >= 1 =>
        LET issued == IF ShutdownDone
                      THEN SubSeq(LoopCommands, 1, Len(LoopCommands) - 1)
                      ELSE LoopCommands
            full == Repeat(PulseCmds, PULSE_CYCLES)
        IN /\ IsPrefix(issued, full)
           /\ LoopLeft =>
                /\ issued = full
                /\ CountOf(issued, VibOnCmd) = PULSE_CYCLES
                /\ CountOf(issued, GateCloseCmd) = PULSE_CYCLES
                /\ CountOf(issued, GateOpenCmd) = PULSE_CYCLES

C1_Witness ==
    /\ PULSE_CYCLES = 3
    /\ pc = "shutdown"
    /\ Len(LoopCommands) = 12
    /\ LoopCommands[9] = VibOnCmd
    /\ LoopCommands[12] = GateOpenCmd

(* ------------------------------------------------------------------ *)
(* C2                                                                 *)
(* ------------------------------------------------------------------ *)
\* The part of the history after the last pulse's reopen wait (after setup()
\* when no pulse ran).
AfterLastPulse ==
    LET ends == {i \in 1..Len(log) : log[i].site \in {"wait", "setup_println"}}
        last == IF ends = {} THEN 0
                ELSE CHOOSE i \in ends : \A j \in ends : j <= i
    IN SubSeq(log, last + 1, Len(log))

C2_OneShutdown == ShutdownDone => Commands(AfterLastPulse) = <<VibOffCmd>>

C2_NothingAfter ==
    ShutdownDone => /\ ShutdownDone'
                    /\ Commands(log)' = Commands(log)
                    /\ vib' = vib
                    /\ gate' = gate

\* C2: after the last pulse's reopen wait exactly one more vibration-0
\* command is issued, and from then on (the terminal halt) no step issues a
\* vibration or gate command.
C2_TerminalShutdown == [](C2_OneShutdown) /\ [][C2_NothingAfter]_vars

C2_Witness ==
    /\ PULSE_CYCLES = 2
    /\ pc = "halt"
    /\ Len(LoopCommands) = 9
    /\ LoopCommands[9] = VibOffCmd
    /\ log[Len(log)].site = "complete"

(* ------------------------------------------------------------------ *)
(* C3                                                                 *)
(* ------------------------------------------------------------------ *)
\* The value of the last analogWrite before position i of the history.
VibBefore(i) ==
    LET ws == {j \in 1..(i - 1) : log[j].op = "analogWrite"}
    IN IF ws = {} THEN 0
       ELSE log[CHOOSE j \in ws : \A k \in ws : k <= j].b

IsGateClose(e) == e.op = "servoWrite" /\ e.b = SERVO_CLOSE_DEG

\* C3: whenever a gate-close command is issued the last commanded vibration
\* is 0, and the command just before it is that pulse's vibration-0 command.
C3_VibrationOffBeforeClose ==
    \A i \in 1..Len(log) :
        IsGateClose(log[i]) =>
            /\ VibBefore(i) = 0
            /\ i > 1
            /\ log[i - 1].site = "vib_off"
            /\ log[i - 1].op = "analogWrite"
            /\ log[i - 1].b = 0

C3_Witness ==
    /\ pc = "hold"
    /\ cycle = 1
    /\ gate = SERVO_CLOSE_DEG
    /\ vib = 0
    /\ IsGateClose(log[Len(log)])

(* ------------------------------------------------------------------ *)
(* C4, C5, C6                                                         *)
(* ------------------------------------------------------------------ *)
\* The positions of the history at which a pulse's final wait is made.  The
\* three calls before it are delay(closedHold), the gate reopen and, before
\* them, the gate close.
WaitEvents == {i \in 1..Len(log) : log[i].site = "wait"}
HoldOf(i) == log[i - 2]
ReopenOf(i) == log[i - 1]
CloseOf(i) == log[i - 3]

\* Both locals of the current pulse have been computed.
BothComputed == pc = "for_incr"

\* C4: in every pulse the two derived waits add up to the off-period:
\* closedHold + reopenWait = VIBE_OFF_MS, for the locals and for the durations
\* actually waited.
C4_WaitsSumToOffPeriod ==
    /\ BothComputed => NumAdd(closedHold, reopenWait) = VIBE_OFF_MS
    /\ \A i \in WaitEvents :
          /\ HoldOf(i).site = "hold"
          /\ NumAdd(HoldOf(i).a, log[i].a) = VIBE_OFF_MS

C4_Witness ==
    /\ BothComputed
    /\ VIBE_OFF_MS = Num(3)
    /\ REOPEN_LEAD_MS = Num(1)
    /\ closedHold = Num(2)
    /\ reopenWait = Num(1)

\* C5: with REOPEN_LEAD_MS >= VIBE_OFF_MS (equality and a zero off-period
\* included) closedHold = 0 and reopenWait = VIBE_OFF_MS, and the gate reopen
\* is issued after the gate close at the same instant.
C5_LeadCoversOffPeriod ==
    NumLeq(VIBE_OFF_MS, REOPEN_LEAD_MS) =>
        /\ pc \in {"gate_open", "wait", "for_incr"} => closedHold = Num(0)
        /\ BothComputed => reopenWait = VIBE_OFF_MS
        /\ \A i \in WaitEvents :
              /\ HoldOf(i).a = Num(0)
              /\ log[i].a = VIBE_OFF_MS
              /\ IsGateClose(CloseOf(i))
              /\ ReopenOf(i).op = "servoWrite"
              /\ ReopenOf(i).b = SERVO_OPEN_DEG
              /\ ReopenOf(i).t = CloseOf(i).t

C5_Witness ==
    /\ BothComputed
    /\ REOPEN_LEAD_MS = Num(3)
    /\ VIBE_OFF_MS = Num(2)
    /\ closedHold = Num(0)
    /\ reopenWait = Num(2)
    /\ ReopenOf(Len(log)).t = CloseOf(Len(log)).t

\* C6: with REOPEN_LEAD_MS < VIBE_OFF_MS, closedHold is
\* VIBE_OFF_MS - REOPEN_LEAD_MS and reopenWait is REOPEN_LEAD_MS.
C6_LeadInsideOffPeriod ==
    NumLess(REOPEN_LEAD_MS, VIBE_OFF_MS) =>
        /\ pc \in {"gate_open", "wait", "for_incr"} =>
              closedHold = NumSub(VIBE_OFF_MS, REOPEN_LEAD_MS)
        /\ BothComputed => reopenWait = REOPEN_LEAD_MS
        /\ \A i \in WaitEvents :
              /\ HoldOf(i).a = NumSub(VIBE_OFF_MS, REOPEN_LEAD_MS)
              /\ log[i].a = REOPEN_LEAD_MS

C6_Witness ==
    /\ BothComputed
    /\ VIBE_OFF_MS = Num(DefaultOffMs)
    /\ REOPEN_LEAD_MS = Num(DefaultLeadMs)
    /\ closedHold = Num(1250)
    /\ reopenWait = Num(250)

(* ------------------------------------------------------------------ *)
(* C7                                                                 *)
(* ------------------------------------------------------------------ *)
\* The three waits of one pulse, written out case by case.
PulseWaits ==
    IF NumLess(REOPEN_LEAD_MS, VIBE_OFF_MS)
    THEN <<VIBE_ON_MS, NumSub(VIBE_OFF_MS, REOPEN_LEAD_MS), REOPEN_LEAD_MS>>
    ELSE <<VIBE_ON_MS, Num(0), VIBE_OFF_MS>>

TimeOfFirst(site) ==
    log[CHOOSE i \in 1..Len(log) :
            /\ log[i].site = site
            /\ \A j \in 1..(i - 1) : log[j].site # site].t

\* Time from the first vibration-on command to the terminal shutdown command.
RunElapsed == NumSub(TimeOfFirst("shutdown"), TimeOfFirst("vib_on"))

\* C7: the waits of the pulse loop are, pulse after pulse, VIBE_ON_MS,
\* closedHold, reopenWait, so that the time from the first vibration-on to the
\* terminal shutdown is PULSE_CYCLES * (VIBE_ON_MS + VIBE_OFF_MS) whatever
\* REOPEN_LEAD_MS is.
C7_TotalElapsed ==
    PULSE_CYCLES >= 1 =>
        /\ IsPrefix(LoopWaits, Repeat(PulseWaits, PULSE_CYCLES))
        /\ LoopLeft => LoopWaits = Repeat(PulseWaits, PULSE_CYCLES)
        /\ ShutdownDone =>
              RunElapsed =
                  NumScale(PULSE_CYCLES, NumAdd(VIBE_ON_MS, VIBE_OFF_MS))

C7_Witness ==
    /\ pc = "halt"
    /\ PULSE_CYCLES = 3
    /\ VIBE_ON_MS = Num(DefaultOnMs)
    /\ VIBE_OFF_MS = Num(DefaultOffMs)
    /\ REOPEN_LEAD_MS = Num(DefaultLeadMs)
    /\ LoopWaits = Repeat(<<Num(500), Num(1250), Num(250)>>, 3)
    /\ RunElapsed = Num(6000)

(* ------------------------------------------------------------------ *)
(* C8                                                                 *)
(* ------------------------------------------------------------------ *)
\* C8: with PULSE_CYCLES = 0 the loop body never runs: no statement of the
\* pulse is reached, nothing is waited, and the only actuator command of
\* loop() is the terminal vibration-0.
C8_ZeroPulses ==
    PULSE_CYCLES = 0 =>
        /\ pc \notin PulseSites
        /\ \A i \in 1..Len(log) : log[i].site \notin PulseSites
        /\ LoopWaits = <<>>
        /\ LoopCommands = IF ShutdownDone THEN <<VibOffCmd>> ELSE <<>>

C8_Witness ==
    /\ PULSE_CYCLES = 0
    /\ pc = "halt"
    /\ LoopCommands = <<VibOffCmd>>
    /\ log[Len(log)].op = "complete"

(* ------------------------------------------------------------------ *)
(* C9                                                                 *)
(* ------------------------------------------------------------------ *)
\* The Finished action has run and completion has been printed.
Finished ==
    /\ pc = "halt"
    /\ CountSite("shutdown") = 1
    /\ CountSite("complete") = 1

C9_FinishedOnce ==
    /\ CountSite("shutdown") <= 1
    /\ CountSite("shutdown") = (IF ShutdownDone THEN 1 ELSE 0)

C9_NeverPulsesAgain ==
    CountSite("shutdown") >= 1 => /\ pc' \notin PulseSites
                                  /\ pc' \notin {"loop_entry", "for_test"}
                                  /\ CountSite("vib_on")' = CountSite("vib_on")

\* C9: every run reaches Finished (the shutdown made, completion printed),
\* the shutdown is made exactly once, and after it no statement of the pulse
\* loop executes again.
C9_ReachesFinished ==
    /\ <>Finished
    /\ []C9_FinishedOnce
    /\ [][C9_NeverPulsesAgain]_vars

C9_Witness ==
    /\ Finished
    /\ PULSE_CYCLES = 2
    /\ CountSite("vib_on") = 2
    /\ NumLess(Num(STARTUP_DELAY_MS), now)

(* ------------------------------------------------------------------ *)
(* C10                                                                *)
(* ------------------------------------------------------------------ *)
\* C10: a negative PULSE_CYCLES is rejected: loop() issues no actuator
\* command and does not run to completion as if the count were zero.
C10_NegativeCountRejected ==
    PULSE_CYCLES < 0 =>
        /\ LoopCommands = <<>>
        /\ CountSite("complete") = 0

(* ------------------------------------------------------------------ *)
(* C11                                                                *)
(* ------------------------------------------------------------------ *)
AnyNegativeDuration ==
    \E f \in {"on", "off", "lead"} : IsNegative(initializer[f])

\* C11: a negative initializer of VIBE_ON_MS, VIBE_OFF_MS or REOPEN_LEAD_MS is
\* rejected: the pulse loop is never reached and nothing is waited in loop().
C11_NegativeDurationRejected ==
    AnyNegativeDuration =>
        /\ pc \notin PulseSites
        /\ LoopWaits = <<>>

(* ------------------------------------------------------------------ *)
(* C12                                                                *)
(* ------------------------------------------------------------------ *)
\* The request was made while the pulse loop was running.
CancelledDuringRun ==
    /\ cancelRequested
    /\ cancelAt.pc \in PulseSites \cup {"for_test"}

\* The statements that begin a phase: VibrateOn, VibrateOffAndClose, Reopen.
PhaseEntries == {"vib_on", "vib_off", "gate_open"}

PhasesBegunAfterCancel ==
    {i \in (cancelAt.len + 1)..Len(log) : log[i].site \in PhaseEntries}

\* C12 as claimed: once cancellation is requested during a run, at most the
\* phase already being entered is begun, then the shutdown is made and
\* nothing more is commanded.
C12_StopsWhenCancelled ==
    CancelledDuringRun =>
        /\ Cardinality(PhasesBegunAfterCancel) <= 1
        /\ ShutdownDone => Commands(AfterLastPulse) = <<VibOffCmd>>

\* C12 as amended: the sketch has no cancellation point.  A request made
\* during a run changes nothing: every phase of all PULSE_CYCLES pulses is
\* still carried out, then the one vibration-0 shutdown is made and nothing
\* more is commanded.
C12_CancelIgnored ==
    CancelledDuringRun =>
        LET issued == IF ShutdownDone
                      THEN SubSeq(LoopCommands, 1, Len(LoopCommands) - 1)
                      ELSE LoopCommands
            full == Repeat(PulseCmds, PULSE_CYCLES)
        IN /\ IsPrefix(issued, full)
           /\ LoopLeft => issued = full
           /\ ShutdownDone => Commands(AfterLastPulse) = <<VibOffCmd>>

C12_Witness ==
    /\ CancelledDuringRun
    /\ PULSE_CYCLES = 3
    /\ cancelAt.pc = "delay_on"
    /\ cancelAt.len = 6
    /\ pc = "halt"
    /\ Len(LoopCommands) = 13

(* ------------------------------------------------------------------ *)
(* C13                                                                *)
(* ------------------------------------------------------------------ *)
\* The time of the last call made by `site` before position i of the history.
TimeOfLastBefore(i, site) ==
    LET js == {j \in 1..(i - 1) : log[j].site = site}
    IN log[CHOOSE j \in js : \A k \in js : k <= j].t

HasBefore(i, site) == \E j \in 1..(i - 1) : log[j].site = site

\* At least d has elapsed between the last call of `site` before i and call i.
ElapsedSince(i, site, d) ==
    NumLeq(NumAdd(TimeOfLastBefore(i, site), d), log[i].t)

\* C13: the vibration-off and gate-close of a pulse come no sooner than
\* VIBE_ON_MS after its vibration-on, its gate-reopen no sooner than closedHold
\* after its gate-close, and the next pulse's vibration-on no sooner than
\* reopenWait after that gate-reopen.
C13_PhasesNeverOverlap ==
    \A i \in 1..Len(log) :
        /\ log[i].site \in {"vib_off", "gate_close"} =>
              ElapsedSince(i, "vib_on", VIBE_ON_MS)
        /\ log[i].site = "gate_open" =>
              ElapsedSince(i, "gate_close", PulseWaits[2])
        /\ (log[i].site = "vib_on" /\ HasBefore(i, "gate_open")) =>
              ElapsedSince(i, "gate_open", PulseWaits[3])

C13_Witness ==
    /\ pc = "delay_on"
    /\ cycle = 1
    /\ VIBE_ON_MS = Num(2)
    /\ VIBE_OFF_MS = Num(3)
    /\ REOPEN_LEAD_MS = Num(1)
    /\ log[Len(log)].site = "vib_on"
    /\ log[Len(log)].t = NumAdd(Num(STARTUP_DELAY_MS), Num(5))

(* ------------------------------------------------------------------ *)
(* C14                                                                *)
(* ------------------------------------------------------------------ *)
IsPulseLine(e) == e.op = "Pulse"
PulseLines == SelectSeq(log, IsPulseLine)

\* The pulses whose progress line is due: those begun, the current one
\* included once its line is printed.
PulsesAnnounced ==
    IF pc \in PulseSites \ {"print"} THEN cycle + 1
    ELSE IF pc \in {"print", "for_test"} THEN cycle
    ELSE IF LoopLeft /\ PULSE_CYCLES > 0 THEN PULSE_CYCLES
    ELSE 0

C14_LinesInOrder ==
    /\ Len(PulseLines) = PulsesAnnounced
    /\ \A k \in 1..Len(PulseLines) :
          /\ PulseLines[k].a = k
          /\ PulseLines[k].b = PULSE_CYCLES
    /\ pc \in PulseSites => (0 <= cycle /\ cycle <= PULSE_CYCLES - 1)
    /\ \A i \in 1..Len(log) :
          log[i].site = "vib_on" => (i > 1 /\ IsPulseLine(log[i - 1]))

C14_LineIsAdvisory ==
    pc = "print" => /\ vib' = vib
                    /\ gate' = gate
                    /\ now' = now
                    /\ Commands(log)' = Commands(log)
                    /\ Waits(log)' = Waits(log)

\* C14: "Pulse i / n" is printed once per pulse, just before that pulse's
\* vibration-on, with i = 1, 2, ..., PULSE_CYCLES in order (cycle runs from 0
\* to PULSE_CYCLES - 1) and n = PULSE_CYCLES; printing it changes no actuator
\* command and no wait.
C14_ProgressLines == []C14_LinesInOrder /\ [][C14_LineIsAdvisory]_vars

C14_Witness ==
    /\ pc = "halt"
    /\ PULSE_CYCLES = 3
    /\ Len(PulseLines) = 3
    /\ PulseLines[3].a = 3
    /\ PulseLines[3].b = 3

(* ------------------------------------------------------------------ *)
(* C15                                                                *)
(* ------------------------------------------------------------------ *)
SetupDone == pc \in LoopSites

\* C15: before the first vibration-on, setup() has written the gate to the
\* open angle and the vibration to 0 and waited the whole startup delay; the
\* startup delay is waited once, never again per pulse.
C15_InitializationFirst ==
    /\ CountSite("setup_delay") = (IF pc \in {"setup_servo", "setup_buzzer",
                                               "setup_delay"} THEN 0 ELSE 1)
    /\ SetupDone =>
          /\ Len(log) >= 4
          /\ Commands(SubSeq(log, 1, 3)) = <<GateOpenCmd, VibOffCmd>>
          /\ log[3].site = "setup_delay"
          /\ log[3].a = Num(STARTUP_DELAY_MS)
          /\ NumLeq(Num(STARTUP_DELAY_MS), now)
    /\ \A i \in 1..Len(log) :
          log[i].site = "vib_on" =>
              /\ i > 4
              /\ NumLeq(Num(STARTUP_DELAY_MS), log[i].t)
    /\ LoopLeft =>
          now = NumAdd(Num(STARTUP_DELAY_MS),
                       NumScale(IF PULSE_CYCLES > 0 THEN PULSE_CYCLES ELSE 0,
                                NumAdd(VIBE_ON_MS, VIBE_OFF_MS)))

C15_Witness ==
    /\ pc = "delay_on"
    /\ cycle = 0
    /\ log[Len(log)].site = "vib_on"
    /\ log[Len(log)].t = Num(STARTUP_DELAY_MS)
    /\ CountSite("setup_delay") = 1

(* ------------------------------------------------------------------ *)
(* C16                                                                *)
(* ------------------------------------------------------------------ *)
\* C16: whenever the vibration is commanded to a non-zero duty the gate is
\* commanded to the open angle.
C16_GateOpenWhileVibrating == vib # 0 => gate = SERVO_OPEN_DEG

C16_Witness ==
    /\ pc = "vib_off"
    /\ cycle = 1
    /\ vib = VIBE_PWM
    /\ gate = SERVO_OPEN_DEG

(* ------------------------------------------------------------------ *)
(* C17                                                                *)
(* ------------------------------------------------------------------ *)
\* C17: in the terminal halt the vibration is commanded to 0 and the gate to
\* the open angle, whatever PULSE_CYCLES is.
C17_HaltsSafe == pc = "halt" => (vib = 0 /\ gate = SERVO_OPEN_DEG)

C17_Witness ==
    /\ pc = "halt"
    /\ PULSE_CYCLES = 2
    /\ vib = 0
    /\ gate = SERVO_OPEN_DEG
    /\ CountSite("gate_close") = 2

(* ------------------------------------------------------------------ *)
(* C18                                                                *)
(* ------------------------------------------------------------------ *)
\* C18: for all unsigned long values of VIBE_OFF_MS and REOPEN_LEAD_MS the
\* subtraction never wraps: closedHold and reopenWait, and the durations
\* waited for them, lie between 0 and VIBE_OFF_MS.
C18_NoWrapAround ==
    /\ pc \in {"gate_open", "wait", "for_incr"} =>
          /\ NumLeq(Num(0), closedHold)
          /\ NumLeq(closedHold, VIBE_OFF_MS)
    /\ BothComputed =>
          /\ NumLeq(Num(0), reopenWait)
          /\ NumLeq(reopenWait, VIBE_OFF_MS)
    /\ \A i \in 1..Len(log) :
          log[i].site \in {"hold", "wait"} =>
              /\ NumLeq(Num(0), log[i].a)
              /\ NumLeq(log[i].a, VIBE_OFF_MS)

C18_Witness ==
    /\ BothComputed
    /\ VIBE_OFF_MS = Num(2)
    /\ REOPEN_LEAD_MS = ULONG_MAX
    /\ initializer.lead = ULONG_MAX
    /\ closedHold = Num(0)
    /\ reopenWait = Num(2)

====
